---- MODULE Spec2Model ----
(***************************************************************************)
(* A model of the P-chain spend planner (class SpendHelper) and of the     *)
(* selection loop that drives it.                                          *)
(*                                                                         *)
(* The planner's fields are the variables.  toBurn and toStake are         *)
(* JavaScript Maps: they iterate in insertion order, and Map.set on a key  *)
(* that is present keeps the key's position, so a map is modelled as a     *)
(* sequence of entries [k, v] with distinct keys.  Amounts are bigint      *)
(* values: unbounded integers.                                             *)
(***************************************************************************)
EXTENDS Integers, Sequences, FiniteSets, TLC

\* ------------------------------------------------------------------ bounds
\* Largest amount handed to consumeAsset / consumeLockedAsset.
MaxAmount == 3
\* Largest initial remaining-to-burn / remaining-to-stake value.
MaxOblig == 2

\* Largest combined length of the input, change-output and stake-output
\* lists.
MaxItems == 3
\* Largest number of output complexities added to the running total.
MaxOutputComplexities == 1

\* Largest private key a caller imports or generateKey draws.
MaxPrivateKey == 3
\* Largest number of key pair objects a key chain's calls construct.
MaxKeyPairs == 4
\* Largest number of RPC calls a caller makes one after the other.
MaxRpcCalls == 4

Assets == {"X", "Y"}
TxIDs == {"txA", "txB"}

\* Byte order of the identifiers, as the canonical comparators see them.
IdOrder == <<"X", "Y", "txA", "txB">>
IdRank(id) == CHOOSE i \in 1 .. Len(IdOrder) : IdOrder[i] = id

\* Amounts a caller passes to the consume methods.  The methods take any
\* bigint, so one negative amount is among them.
Amounts == (0 .. MaxAmount) \cup {-1}

VARIABLES
    gasPrice,       \* bigint, readonly
    weights,        \* Dimensions, readonly
    toBurn,         \* Map<string, bigint>: remaining-to-burn per asset
    toStake,        \* Map<string, bigint>: remaining-to-stake per asset
    complexity,     \* Dimensions: the running total
    inputs,         \* TransferableInput[]
    changeOutputs,  \* TransferableOutput[]
    stakeOutputs,   \* TransferableOutput[]
    inputUTXOs,     \* Utxo[]
    utxoSet,        \* selection loop: the UTXOs the caller holds
    required,       \* selection loop: the obligations the plan started with
    pending,        \* selection loop: the UTXOs not yet iterated
    pc,             \* selection loop: "select", "verified", "done"; else "free"
    keys,           \* PlatformVMKeyChain.keys: hex address -> key pair
    nextKeyPair,    \* identity of the next key pair object constructed
    rpc,            \* EVMAPI: the call in flight, its requests and response
    call,           \* the method called last and its arguments
    ret             \* what that call returned

params == <<gasPrice, weights>>
ledger == <<toBurn, toStake>>
lists == <<inputs, changeOutputs, stakeOutputs, inputUTXOs>>
loop == <<utxoSet, required, pending, pc>>
keychain == <<keys, nextKeyPair>>
vars == <<gasPrice, weights, toBurn, toStake, complexity, inputs,
          changeOutputs, stakeOutputs, inputUTXOs, utxoSet, required, pending,
          pc, keys, nextKeyPair, rpc,
          call, ret>>

\* ------------------------------------------------------------- Map helpers
MapKeys(m) == {m[i].k : i \in 1 .. Len(m)}

\* Map.prototype.has
MapHas(m, key) == key \in MapKeys(m)

\* Map.prototype.get(key) ?? 0n
MapGetOr0(m, key) ==
    IF MapHas(m, key)
    THEN LET i == CHOOSE j \in 1 .. Len(m) : m[j].k = key IN m[i].v
    ELSE 0

\* Map.prototype.set: an existing key keeps its position, a new key is
\* appended.
MapSet(m, key, val) ==
    IF MapHas(m, key)
    THEN [i \in 1 .. Len(m) |-> IF m[i].k = key THEN [k |-> key, v |-> val] ELSE m[i]]
    ELSE Append(m, [k |-> key, v |-> val])

\* bigIntMin of utils/bigintMath
bigIntMin(a, b) == IF a < b THEN a ELSE b

\* All maps with distinct keys among Assets and values in vals, in every
\* insertion order.
RECURSIVE MapsOver(_, _)
MapsOver(ids, vals) ==
    {<<>>} \cup
    UNION { { <<[k |-> key, v |-> val]>> \o rest :
                val \in vals, rest \in MapsOver(ids \ {key}, vals) } :
            key \in ids }

\* ------------------------------------------------------ SpendHelper methods
\* Mutant: a key of the stake map counts even when its amount is zero.
shouldConsumeLockedAsset_HasKey(ts, assetId) == MapHas(ts, assetId)

\* shouldConsumeLockedAsset(assetId)
shouldConsumeLockedAsset(ts, assetId) ==
    MapHas(ts, assetId) /\ MapGetOr0(ts, assetId) # 0

\* Mutant: the stake obligation is not looked at.
shouldConsumeAsset_BurnOnly(tb, ts, assetId) ==
    MapHas(tb, assetId) /\ MapGetOr0(tb, assetId) # 0

\* shouldConsumeAsset(assetId)
shouldConsumeAsset(tb, ts, assetId) ==
    (MapHas(tb, assetId) /\ MapGetOr0(tb, assetId) # 0)
    \/ shouldConsumeLockedAsset(ts, assetId)

\* Mutant: the consumption is not clamped to the obligation.
consumeLockedAsset_Unclamped(ts, assetId, amount) ==
    LET assetToStake == MapGetOr0(ts, assetId)
    IN  [toStake |-> MapSet(ts, assetId, assetToStake - amount),
         ret |-> 0]

\* Mutant: the whole amount is returned as the remainder.
consumeLockedAsset_ReturnsAmount(ts, assetId, amount) ==
    LET assetToStake == MapGetOr0(ts, assetId)
        staked == bigIntMin(assetToStake, amount)
    IN  [toStake |-> MapSet(ts, assetId, assetToStake - staked),
         ret |-> amount]

\* consumeLockedAsset(assetId, amount): the new toStake map and the
\* returned remainder.
consumeLockedAsset(ts, assetId, amount) ==
    LET assetToStake == MapGetOr0(ts, assetId)
        staked == bigIntMin(assetToStake, amount)
    IN  [toStake |-> MapSet(ts, assetId, assetToStake - staked),
         ret |-> amount - staked]

\* Mutant: the amount goes to the stake obligation first.
consumeAsset_StakeFirst(tb, ts, assetId, amount) ==
    LET locked == consumeLockedAsset(ts, assetId, amount)
        assetToBurn == MapGetOr0(tb, assetId)
        burned == bigIntMin(assetToBurn, locked.ret)
    IN  [toBurn |-> MapSet(tb, assetId, assetToBurn - burned),
         toStake |-> locked.toStake,
         ret |-> locked.ret - burned]

\* consumeAsset(assetId, amount): the new maps and the returned remainder.
consumeAsset(tb, ts, assetId, amount) ==
    LET assetToBurn == MapGetOr0(tb, assetId)
        burned == bigIntMin(assetToBurn, amount)
        locked == consumeLockedAsset(ts, assetId, amount - burned)
    IN  [toBurn |-> MapSet(tb, assetId, assetToBurn - burned),
         toStake |-> locked.toStake,
         ret |-> locked.ret]

NoError == [kind |-> "null", assetId |-> "", amount |-> 0]

\* The first entry of a map whose amount is not 0n, as the loops of
\* verifyAssetsConsumed find it; 0 when there is none.
FirstNonZero(m) ==
    IF \E i \in 1 .. Len(m) : m[i].v # 0
    THEN CHOOSE i \in 1 .. Len(m) :
            m[i].v # 0 /\ \A j \in 1 .. i - 1 : m[j].v = 0
    ELSE 0

\* Mutant: the loop over toBurn is missing.
verifyAssetsConsumed_StakeOnly(tb, ts) ==
    IF FirstNonZero(ts) # 0
    THEN LET e == ts[FirstNonZero(ts)]
         IN  [kind |-> "stake", assetId |-> e.k, amount |-> e.v]
    ELSE NoError

\* Mutant: the two loops are in the other order.
verifyAssetsConsumed_BurnFirst(tb, ts) ==
    IF FirstNonZero(tb) # 0
    THEN LET e == tb[FirstNonZero(tb)]
         IN  [kind |-> "burn", assetId |-> e.k, amount |-> e.v]
    ELSE IF FirstNonZero(ts) # 0
    THEN LET e == ts[FirstNonZero(ts)]
         IN  [kind |-> "stake", assetId |-> e.k, amount |-> e.v]
    ELSE NoError

\* verifyAssetsConsumed(): the Error (which map, asset, amount) or null.
verifyAssetsConsumed(tb, ts) ==
    IF FirstNonZero(ts) # 0
    THEN LET e == ts[FirstNonZero(ts)]
         IN  [kind |-> "stake", assetId |-> e.k, amount |-> e.v]
    ELSE IF FirstNonZero(tb) # 0
    THEN LET e == tb[FirstNonZero(tb)]
         IN  [kind |-> "burn", assetId |-> e.k, amount |-> e.v]
    ELSE NoError

\* ---------------------------------------------------- fee dimension model
\* Field widths of the wire format (txs/fee/constants.ts).
LONG_LEN == 8
ID_LEN == 32
SHORT_ID_LEN == 20
INT_LEN == 4
\* Length of a secp256k1 signature (crypto/secp256k1).
SIGNATURE_LENGTH == 65

INTRINSIC_OUTPUT_BANDWIDTH == ID_LEN + INT_LEN
INTRINSIC_STAKEABLE_LOCKED_OUTPUT_BANDWIDTH == LONG_LEN + INT_LEN
INTRINSIC_SECP256K1_FX_OUTPUT_OWNERS_BANDWIDTH == LONG_LEN + INT_LEN + INT_LEN
INTRINSIC_SECP256K1_FX_OUTPUT_BANDWIDTH ==
    LONG_LEN + INTRINSIC_SECP256K1_FX_OUTPUT_OWNERS_BANDWIDTH
INTRINSIC_INPUT_BANDWIDTH == ID_LEN + INT_LEN + ID_LEN + INT_LEN + INT_LEN
INTRINSIC_STAKEABLE_LOCKED_INPUT_BANDWIDTH == LONG_LEN + INT_LEN
INTRINSIC_SECP256K1_FX_INPUT_BANDWIDTH == INT_LEN + INT_LEN
INTRINSIC_SECP256K1_FX_TRANSFERABLE_INPUT_BANDWIDTH ==
    LONG_LEN + INTRINSIC_SECP256K1_FX_INPUT_BANDWIDTH
INTRINSIC_SECP256K1_FX_SIGNATURE_BANDWIDTH == INT_LEN + SIGNATURE_LENGTH
INTRINSIC_INPUT_DB_READ == 1
INTRINSIC_INPUT_DB_WRITE == 1
INTRINSIC_OUTPUT_DB_WRITE == 1

FeeDimensions == {"Bandwidth", "DBRead", "DBWrite", "Compute"}

Dims(b, r, w, c) == [Bandwidth |-> b, DBRead |-> r, DBWrite |-> w, Compute |-> c]

\* Mutant: the two bytes of the codec version are left out.
INTRINSIC_BASE_TX_COMPLEXITIES_NoCodec ==
    Dims(INT_LEN + INT_LEN + ID_LEN + INT_LEN + INT_LEN + INT_LEN + INT_LEN,
         0, 0, 0)

INTRINSIC_BASE_TX_COMPLEXITIES ==
    Dims(2 + INT_LEN + INT_LEN + ID_LEN + INT_LEN + INT_LEN + INT_LEN + INT_LEN,
         0, 0, 0)

SHORT_LEN == 2
INTRINSIC_VALIDATOR_BANDWIDTH == SHORT_ID_LEN + LONG_LEN + LONG_LEN + LONG_LEN
INTRINSIC_SUBNET_VALIDATOR_BANDWIDTH == INTRINSIC_VALIDATOR_BANDWIDTH + ID_LEN

INTRINSIC_CREATE_CHAIN_TX_COMPLEXITIES ==
    Dims(INTRINSIC_BASE_TX_COMPLEXITIES.Bandwidth + ID_LEN + SHORT_LEN + ID_LEN
             + INT_LEN + INT_LEN + INT_LEN + INT_LEN,
         1, 1, 0)

INTRINSIC_CREATE_SUBNET_TX_COMPLEXITIES ==
    Dims(INTRINSIC_BASE_TX_COMPLEXITIES.Bandwidth + INT_LEN, 0, 1, 0)

INTRINSIC_ADD_PERMISSIONLESS_VALIDATOR_TX_COMPLEXITIES ==
    Dims(INTRINSIC_BASE_TX_COMPLEXITIES.Bandwidth + INTRINSIC_VALIDATOR_BANDWIDTH
             + ID_LEN + INT_LEN + INT_LEN + INT_LEN + INT_LEN + INT_LEN,
         1, 1, 0)

INTRINSIC_ADD_PERMISSIONLESS_DELEGATOR_TX_COMPLEXITIES ==
    Dims(INTRINSIC_BASE_TX_COMPLEXITIES.Bandwidth + INTRINSIC_VALIDATOR_BANDWIDTH
             + ID_LEN + INT_LEN + INT_LEN,
         1, 1, 0)

INTRINSIC_ADD_SUBNET_VALIDATOR_TX_COMPLEXITIES ==
    Dims(INTRINSIC_BASE_TX_COMPLEXITIES.Bandwidth
             + INTRINSIC_SUBNET_VALIDATOR_BANDWIDTH + INT_LEN + INT_LEN,
         2, 1, 0)

INTRINSIC_EXPORT_TX_COMPLEXITIES ==
    Dims(INTRINSIC_BASE_TX_COMPLEXITIES.Bandwidth + ID_LEN + INT_LEN, 0, 0, 0)

INTRINSIC_IMPORT_TX_COMPLEXITIES ==
    Dims(INTRINSIC_BASE_TX_COMPLEXITIES.Bandwidth + ID_LEN + INT_LEN, 0, 0, 0)

INTRINSIC_REMOVE_SUBNET_VALIDATOR_TX_COMPLEXITIES ==
    Dims(INTRINSIC_BASE_TX_COMPLEXITIES.Bandwidth + SHORT_ID_LEN + ID_LEN
             + INT_LEN + INT_LEN,
         2, 1, 0)

INTRINSIC_TRANSFER_SUBNET_OWNERSHIP_TX_COMPLEXITIES ==
    Dims(INTRINSIC_BASE_TX_COMPLEXITIES.Bandwidth + ID_LEN
             + INT_LEN + INT_LEN + INT_LEN,
         1, 1, 0)

\* addDimensions: component-wise sum.
addDimensions(a, b) == [d \in FeeDimensions |-> a[d] + b[d]]

\* dimensionsToGas: the weighted sum over the dimensions.
dimensionsToGas(c, w) ==
    c.Bandwidth * w.Bandwidth + c.DBRead * w.DBRead
    + c.DBWrite * w.DBWrite + c.Compute * w.Compute

\* The marginal Dimensions of one transferable input: its fixed fields, the
\* stakeable-lock wrapper when it has one, and one signature per signature
\* index; one DB read and one DB write.
InputComplexity(in) ==
    Dims(INTRINSIC_INPUT_BANDWIDTH
           + INTRINSIC_SECP256K1_FX_TRANSFERABLE_INPUT_BANDWIDTH
           + (IF in.locktime > 0 THEN INTRINSIC_STAKEABLE_LOCKED_INPUT_BANDWIDTH ELSE 0)
           + in.sigIndices * INTRINSIC_SECP256K1_FX_SIGNATURE_BANDWIDTH,
         INTRINSIC_INPUT_DB_READ, INTRINSIC_INPUT_DB_WRITE, 0)

\* The marginal Dimensions of one transferable output: its fixed fields, the
\* stakeable-lock wrapper when it has one, and its owner addresses; one DB
\* write.
OutputComplexity(out) ==
    Dims(INTRINSIC_OUTPUT_BANDWIDTH
           + INTRINSIC_SECP256K1_FX_OUTPUT_BANDWIDTH
           + (IF out.locktime > 0 THEN INTRINSIC_STAKEABLE_LOCKED_OUTPUT_BANDWIDTH ELSE 0)
           + out.addrs * SHORT_ID_LEN,
         0, INTRINSIC_OUTPUT_DB_WRITE, 0)

ZeroDims == Dims(0, 0, 0, 0)

RECURSIVE getInputComplexity(_)
getInputComplexity(ins) ==
    IF ins = <<>> THEN ZeroDims
    ELSE addDimensions(InputComplexity(Head(ins)), getInputComplexity(Tail(ins)))

RECURSIVE getOutputComplexity(_)
getOutputComplexity(outs) ==
    IF outs = <<>> THEN ZeroDims
    ELSE addDimensions(OutputComplexity(Head(outs)), getOutputComplexity(Tail(outs)))

\* ------------------------------------------------- canonical sort orders
\* Lexicographic comparison of two tuples of integers: -1, 0 or 1.
RECURSIVE LexCompare(_, _)
LexCompare(a, b) ==
    IF a = <<>> THEN 0
    ELSE IF Head(a) < Head(b) THEN -1
    ELSE IF Head(a) > Head(b) THEN 1
    ELSE LexCompare(Tail(a), Tail(b))

\* TransferableInput.compare: by source transaction ID, then output index,
\* then asset ID.
TransferableInputCompare(a, b) ==
    LexCompare(<<IdRank(a.txID), a.outputIdx, IdRank(a.assetId)>>,
               <<IdRank(b.txID), b.outputIdx, IdRank(b.assetId)>>)

\* compareTransferableOutputs: by asset ID, then the locking-condition
\* fields, then the amount.
compareTransferableOutputs(a, b) ==
    LexCompare(<<IdRank(a.assetId), a.locktime, a.addrs, a.amount>>,
               <<IdRank(b.assetId), b.locktime, b.addrs, b.amount>>)

\* A comparator passed as a value: the named comparator applied to a, b.
Compare(compare, a, b) ==
    IF compare = "TransferableInput.compare" THEN TransferableInputCompare(a, b)
    ELSE compareTransferableOutputs(a, b)

\* Array.prototype.sort(compare): a stable sort.  An element goes after
\* every element that compares smaller and after the equal ones that stood
\* before it.
ArraySort(arr, compare) ==
    LET n == Len(arr)
        pos(i) == Cardinality({j \in 1 .. n : Compare(compare, arr[j], arr[i]) < 0})
                  + Cardinality({j \in 1 .. i - 1 : Compare(compare, arr[j], arr[i]) = 0})
                  + 1
    IN  [p \in 1 .. n |-> arr[CHOOSE i \in 1 .. n : pos(i) = p]]

\* ------------------------------------------- SpendHelper: lists and fee
\* Mutant: the input's complexity replaces the running total.
addInput_Overwrite(ins, cx, us, utxo, transferableInput) ==
    [inputs |-> Append(ins, transferableInput),
     complexity |-> getInputComplexity(<<transferableInput>>),
     inputUTXOs |-> Append(us, utxo)]

\* Mutant: the backing UTXO goes to the front of its list.
addInput_UtxoFirst(ins, cx, us, utxo, transferableInput) ==
    [inputs |-> Append(ins, transferableInput),
     complexity |-> addDimensions(cx, getInputComplexity(<<transferableInput>>)),
     inputUTXOs |-> <<utxo>> \o us]

\* addInput: the new input list, running total and backing-UTXO list.
addInput(ins, cx, us, utxo, transferableInput) ==
    [inputs |-> Append(ins, transferableInput),
     complexity |-> addDimensions(cx, getInputComplexity(<<transferableInput>>)),
     inputUTXOs |-> Append(us, utxo)]

\* Mutant: the output goes to the front of the list.
addChangeOutput_Prepend(outs, transferableOutput) ==
    [changeOutputs |-> <<transferableOutput>> \o outs,
     ret |-> getOutputComplexity(<<transferableOutput>>)]

\* addChangeOutput: the new change-output list and the returned Dimensions.
addChangeOutput(outs, transferableOutput) ==
    [changeOutputs |-> Append(outs, transferableOutput),
     ret |-> getOutputComplexity(<<transferableOutput>>)]

\* addStakedOutput: the new stake-output list and the returned Dimensions.
addStakedOutput(outs, transferableOutput) ==
    [stakeOutputs |-> Append(outs, transferableOutput),
     ret |-> getOutputComplexity(<<transferableOutput>>)]

\* addOutputComplexity: the new running total.
addOutputComplexity(cx, transferableOutput) ==
    addDimensions(cx, getOutputComplexity(<<transferableOutput>>))

\* Mutant: the gas is not multiplied by the gas price.
calculateFee_GasOnly(cx, w, gp) == dimensionsToGas(cx, w)

\* calculateFee()
calculateFee(cx, w, gp) == dimensionsToGas(cx, w) * gp

\* Mutant: the inputs are returned as they were added.
getInputsOutputs_InputsUnsorted(ins, chg, stk, us) ==
    [changeOutputs |-> ArraySort(chg, "compareTransferableOutputs"),
     inputs |-> ins,
     inputUTXOs |-> us,
     stakeOutputs |-> ArraySort(stk, "compareTransferableOutputs")]

\* Mutant: the lists are returned as they were built.
getInputsOutputs_Unsorted(ins, chg, stk, us) ==
    [changeOutputs |-> chg, inputs |-> ins, inputUTXOs |-> us,
     stakeOutputs |-> stk]

\* getInputsOutputs()
getInputsOutputs(ins, chg, stk, us) ==
    [changeOutputs |-> ArraySort(chg, "compareTransferableOutputs"),
     inputs |-> ArraySort(ins, "TransferableInput.compare"),
     inputUTXOs |-> us,
     stakeOutputs |-> ArraySort(stk, "compareTransferableOutputs")]

\* ------------------------------------------------------------ the records
Utxo(tx, idx, a, amt, lock, n) ==
    [txID |-> tx, outputIdx |-> idx, assetId |-> a, amount |-> amt,
     locktime |-> lock, addrs |-> n]

\* The transferable input that spends a UTXO: one signature index per owner.
InputOf(u) ==
    [txID |-> u.txID, outputIdx |-> u.outputIdx, assetId |-> u.assetId,
     amount |-> u.amount, locktime |-> u.locktime, sigIndices |-> u.addrs]

Output(a, amt, lock, n) ==
    [assetId |-> a, amount |-> amt, locktime |-> lock, addrs |-> n]

\* The UTXOs and outputs a caller of the list methods draws from.
BuildUtxos ==
    {Utxo("txA", 0, "X", 3, 0, 1), Utxo("txA", 1, "Y", 1, 0, 2),
     Utxo("txB", 0, "X", 2, 1, 1)}

BuildOutputs ==
    {Output("X", 1, 0, 1), Output("X", 2, 0, 1), Output("X", 1, 0, 2),
     Output("Y", 1, 1, 1)}

\* Gas price and dimension weights a caller constructs the planner with
\* (all non-negative).
FeeParams ==
    {[gasPrice |-> 1, weights |-> Dims(1, 0, 0, 0)],
     [gasPrice |-> 2, weights |-> Dims(1, 2, 3, 4)],
     [gasPrice |-> 0, weights |-> Dims(1, 1, 1, 1)]}

Call(op, arg) == [op |-> op, arg |-> arg]

NoArg == [none |-> TRUE]

\* ------------------------------------------------------ PlatformVMKeyChain
PrivateKeys == 1 .. MaxPrivateKey

\* The key chain's Human-Readable-Part and chain ID, set by its constructor.
KeyChainHrp == "avax"
KeyChainChainID == "P"

\* The public key of a private key, the address of a public key and the
\* hex string of an address: each a fixed function of its argument.
PublicKeyOf(privk) == <<"pubk", privk>>
addressFromPublicKey(pubk) == <<"addr", pubk[2]>>
toHex(addr) == <<"hex", addr[2]>>

\* bintools.cb58Encode / cb58Decode of the bytes of a private key.
cb58Encode(bytes) == <<"cb58", bytes + 1>>
cb58Decode(str) == str[2] - 1

\* bintools.copyFrom: a copy of the bytes.
copyFrom(buff) == buff.bytes

\* The two forms a caller passes a private key in: the Buffer of its bytes
\* and the string "PrivateKey-<cb58>", held as the parts split('-') yields.
BufferKey(k) == [typeof |-> "object", bytes |-> k]
StringKey(k) == [typeof |-> "string", parts |-> <<"PrivateKey", cb58Encode(k)>>]
PrivateKeyArgs == {BufferKey(k) : k \in PrivateKeys} \cup {StringKey(k) : k \in PrivateKeys}

\* new PlatformVMKeyPair(hrp, chainid): a new object holding the key that
\* generateKey drew.
PlatformVMKeyPair(id, hrp, chainid, generated) ==
    [id |-> id, chainid |-> chainid, hrp |-> hrp,
     privk |-> generated, pubk |-> PublicKeyOf(generated)]

\* keypair.importKey(pk): the pair takes the private key and its public key.
KeyPairImportKey(keypair, pk) ==
    [keypair EXCEPT !.privk = pk, !.pubk = PublicKeyOf(pk)]

getAddress(keypair) == addressFromPublicKey(keypair.pubk)

setChainID(keypair, chainid) == [keypair EXCEPT !.chainid = chainid]

\* SECP256k1KeyChain.addKey: the pair is stored under its hex address.
superAddKey(ks, newKey) ==
    [a \in DOMAIN ks \cup {toHex(getAddress(newKey))} |->
        IF a = toHex(getAddress(newKey)) THEN newKey ELSE ks[a]]

\* addKey(newKey)
addKey(ks, newKey) == superAddKey(ks, setChainID(newKey, KeyChainChainID))

\* makeKey(): the new key map and the returned address.
makeKey(ks, id, generated) ==
    LET keypair == PlatformVMKeyPair(id, KeyChainHrp, KeyChainChainID, generated) IN
    [keys |-> addKey(ks, keypair), ret |-> getAddress(keypair)]

\* Mutant: the pair is stored whether or not its address is held.
importKey_AlwaysAdds(ks, id, generated, privk) ==
    LET pk == IF privk.typeof = "string"
              THEN cb58Decode(privk.parts[2])
              ELSE copyFrom(privk)
        keypair == KeyPairImportKey(
                       PlatformVMKeyPair(id, KeyChainHrp, KeyChainChainID, generated), pk)
    IN  [keys |-> addKey(ks, keypair), ret |-> getAddress(keypair)]

\* importKey(privk): the new key map and the returned address.
importKey(ks, id, generated, privk) ==
    LET pk == IF privk.typeof = "string"
              THEN cb58Decode(privk.parts[2])
              ELSE copyFrom(privk)
        keypair == KeyPairImportKey(
                       PlatformVMKeyPair(id, KeyChainHrp, KeyChainChainID, generated), pk)
    IN  [keys |-> IF toHex(getAddress(keypair)) \notin DOMAIN ks
                  THEN addKey(ks, keypair)
                  ELSE ks,
         ret |-> getAddress(keypair)]

\* new PlatformVMKeyChain(hrp, chainid): no key is held.
EmptyKeyChain ==
    /\ keys = [a \in {} |-> 0]
    /\ nextKeyPair = 1

\* ------------------------------------------------------------------ EVMAPI
\* The RPC methods and the field of the result each one resolves with;
\* getAssetBalance resolves with the whole response body.
RpcMethods ==
    {"importKey", "exportKey", "export", "import", "getAssetBalance",
     "getAtomicTxStatus"}

ResultField(method) ==
    CASE method = "importKey" -> "address"
      [] method = "exportKey" -> "privateKey"
      [] method = "export" -> "txID"
      [] method = "import" -> "txID"
      [] method = "getAtomicTxStatus" -> "status"

\* A JSON string, and what a promise holds before it resolves.
Str(v) == [string |-> v]
Pending == [pending |-> TRUE]

\* The error objects a node answers with in place of a result.
ErrorResults ==
    {[code |-> -32000, message |-> "incorrect password for user", data |-> "null"],
     [code |-> -32602, message |-> "invalid argument 2"]}

\* The results a node answers a method with when it succeeds.
ResultValues == {Str("v1"), Str("v2"), Str("v3")}
SuccessResults(method) ==
    IF method = "getAssetBalance"
    THEN {Str("0x0"), Str("0x1"), Str("0x2")}
    ELSE {[f \in {ResultField(method)} |-> v] : v \in ResultValues}

\* The body of the node's response: {result: ...}.
ResponseBodies(method) ==
    {[result |-> r] : r \in SuccessResults(method) \cup ErrorResults}

\* Mutant: an error object resolves to nothing.
Resolve_SwallowsError(method, data) ==
    IF method = "getAssetBalance"
    THEN data
    ELSE IF ResultField(method) \in DOMAIN data.result
         THEN data.result[ResultField(method)]
         ELSE [undefined |-> TRUE]

\* What a method's promise resolves with for the response body data: the
\* result's field when the result has it, else the result itself.
Resolve(method, data) ==
    IF method = "getAssetBalance"
    THEN data
    ELSE IF ResultField(method) \in DOMAIN data.result
         THEN data.result[ResultField(method)]
         ELSE data.result

\* new EVMAPI(...), and mockAxios after reset: nothing requested.
NoRpc ==
    rpc = [status |-> "idle", method |-> "none", requests |-> 0, calls |-> 0,
           data |-> NoArg]

\* ------------------------------------------------------------------ actions
\* new SpendHelper({...}) with empty lists, the base transaction's intrinsic
\* complexity and the given obligations.
Constructed(gp, w, tb, ts) ==
    /\ gasPrice = gp
    /\ weights = w
    /\ toBurn = tb
    /\ toStake = ts
    /\ complexity = INTRINSIC_BASE_TX_COMPLEXITIES
    /\ inputs = <<>>
    /\ changeOutputs = <<>>
    /\ stakeOutputs = <<>>
    /\ inputUTXOs = <<>>
    /\ call = Call("new", NoArg)
    /\ ret = 0

\* The planner driven method by method, outside the selection loop.
NoLoop ==
    /\ utxoSet = {}
    /\ required = [toBurn |-> <<>>, toStake |-> <<>>]
    /\ pending = {}
    /\ pc = "free"

\* ---- the obligation ledger under arbitrary calls
Init ==
    \E tb \in MapsOver(Assets, 0 .. MaxOblig), ts \in MapsOver(Assets, 0 .. MaxOblig) :
        /\ Constructed(1, Dims(1, 0, 0, 0), tb, ts)
        /\ NoLoop
        /\ EmptyKeyChain
        /\ NoRpc

ConsumeAsset ==
    \E a \in Assets, amt \in Amounts :
        LET r == consumeAsset(toBurn, toStake, a, amt) IN
        /\ amt >= 0 \/ MapGetOr0(toBurn, a) - amt <= MaxOblig
        /\ toBurn' = r.toBurn
        /\ toStake' = r.toStake
        /\ call' = Call("consumeAsset", [assetId |-> a, amount |-> amt])
        /\ ret' = r.ret
        /\ UNCHANGED <<params, rpc, keychain, loop, complexity, lists>>

ConsumeLockedAsset ==
    \E a \in Assets, amt \in Amounts :
        LET r == consumeLockedAsset(toStake, a, amt) IN
        /\ amt >= 0 \/ MapGetOr0(toStake, a) - amt <= MaxOblig
        /\ toStake' = r.toStake
        /\ call' = Call("consumeLockedAsset", [assetId |-> a, amount |-> amt])
        /\ ret' = r.ret
        /\ UNCHANGED <<params, rpc, keychain, loop, toBurn, complexity, lists>>

ShouldConsumeAsset ==
    \E a \in Assets :
        /\ call' = Call("shouldConsumeAsset", [assetId |-> a])
        /\ ret' = shouldConsumeAsset(toBurn, toStake, a)
        /\ UNCHANGED <<params, rpc, keychain, loop, ledger, complexity, lists>>

ShouldConsumeLockedAsset ==
    \E a \in Assets :
        /\ call' = Call("shouldConsumeLockedAsset", [assetId |-> a])
        /\ ret' = shouldConsumeLockedAsset(toStake, a)
        /\ UNCHANGED <<params, rpc, keychain, loop, ledger, complexity, lists>>

VerifyAssetsConsumed ==
    /\ call' = Call("verifyAssetsConsumed", NoArg)
    /\ ret' = verifyAssetsConsumed(toBurn, toStake)
    /\ UNCHANGED <<params, rpc, keychain, loop, ledger, complexity, lists>>

Next ==
    \/ ConsumeAsset
    \/ ConsumeLockedAsset
    \/ ShouldConsumeAsset
    \/ ShouldConsumeLockedAsset
    \/ VerifyAssetsConsumed

Spec == Init /\ [][Next]_vars

\* ---- the lists and the fee under arbitrary calls
InitBuild ==
    \E fp \in FeeParams :
        /\ Constructed(fp.gasPrice, fp.weights,
                       <<[k |-> "X", v |-> MaxOblig]>>, <<[k |-> "Y", v |-> 1]>>)
        /\ NoLoop
        /\ EmptyKeyChain
        /\ NoRpc

ListRoom == Len(inputs) + Len(changeOutputs) + Len(stakeOutputs) < MaxItems

AddInput ==
    \E u \in BuildUtxos :
        LET r == addInput(inputs, complexity, inputUTXOs, u, InputOf(u)) IN
        /\ ListRoom
        /\ inputs' = r.inputs
        /\ complexity' = r.complexity
        /\ inputUTXOs' = r.inputUTXOs
        /\ call' = Call("addInput", [utxo |-> u, input |-> InputOf(u)])
        /\ ret' = 0
        /\ UNCHANGED <<params, rpc, keychain, loop, ledger, changeOutputs, stakeOutputs>>

AddChangeOutput ==
    \E o \in BuildOutputs :
        LET r == addChangeOutput(changeOutputs, o) IN
        /\ ListRoom
        /\ changeOutputs' = r.changeOutputs
        /\ call' = Call("addChangeOutput", [output |-> o])
        /\ ret' = r.ret
        /\ UNCHANGED <<params, rpc, keychain, loop, ledger, complexity, inputs, stakeOutputs, inputUTXOs>>

AddStakedOutput ==
    \E o \in BuildOutputs :
        LET r == addStakedOutput(stakeOutputs, o) IN
        /\ ListRoom
        /\ stakeOutputs' = r.stakeOutputs
        /\ call' = Call("addStakedOutput", [output |-> o])
        /\ ret' = r.ret
        /\ UNCHANGED <<params, rpc, keychain, loop, ledger, complexity, inputs, changeOutputs, inputUTXOs>>

AddOutputComplexity ==
    \E o \in BuildOutputs :
        /\ complexity.DBWrite - Len(inputs) < MaxOutputComplexities
        /\ complexity' = addOutputComplexity(complexity, o)
        /\ call' = Call("addOutputComplexity", [output |-> o])
        /\ ret' = 0
        /\ UNCHANGED <<params, rpc, keychain, loop, ledger, lists>>

CalculateFee ==
    /\ call' = Call("calculateFee", NoArg)
    /\ ret' = calculateFee(complexity, weights, gasPrice)
    /\ UNCHANGED <<params, rpc, keychain, loop, ledger, complexity, lists>>

GetInputsOutputs ==
    /\ call' = Call("getInputsOutputs", NoArg)
    /\ ret' = getInputsOutputs(inputs, changeOutputs, stakeOutputs, inputUTXOs)
    /\ UNCHANGED <<params, rpc, keychain, loop, ledger, complexity, lists>>

NextBuild ==
    \/ AddInput
    \/ AddChangeOutput
    \/ AddStakedOutput
    \/ AddOutputComplexity
    \/ CalculateFee
    \/ GetInputsOutputs

SpecBuild == InitBuild /\ [][NextBuild]_vars

\* ---- the caller's selection loop
\* The planner's mutable fields as one value, for the loop body below.
Planner(tb, ts, cx, ins, chg, stk, us) ==
    [toBurn |-> tb, toStake |-> ts, complexity |-> cx, inputs |-> ins,
     changeOutputs |-> chg, stakeOutputs |-> stk, inputUTXOs |-> us]

\* One iteration of the loop on UTXO u: when its asset is still needed,
\* add it as an input, consume its amount, put the staked portion into a
\* stake output and the remainder into a change output, and add each
\* output's complexity to the running total.  Otherwise u is passed over.
SpendUtxo(st, u) ==
    IF ~shouldConsumeAsset(st.toBurn, st.toStake, u.assetId) THEN st
    ELSE
    LET added == addInput(st.inputs, st.complexity, st.inputUTXOs, u, InputOf(u))
        used == consumeAsset(st.toBurn, st.toStake, u.assetId, u.amount)
        staked == MapGetOr0(st.toStake, u.assetId) - MapGetOr0(used.toStake, u.assetId)
        stakeOut == Output(u.assetId, staked, 0, 1)
        changeOut == Output(u.assetId, used.ret, 0, 1)
        cx1 == IF staked > 0
               THEN addOutputComplexity(added.complexity, stakeOut)
               ELSE added.complexity
        cx2 == IF used.ret > 0 THEN addOutputComplexity(cx1, changeOut) ELSE cx1
    IN  Planner(used.toBurn, used.toStake, cx2, added.inputs,
                IF used.ret > 0
                THEN addChangeOutput(st.changeOutputs, changeOut).changeOutputs
                ELSE st.changeOutputs,
                IF staked > 0
                THEN addStakedOutput(st.stakeOutputs, stakeOut).stakeOutputs
                ELSE st.stakeOutputs,
                added.inputUTXOs)

\* The loop run over a whole sequence of UTXOs.
RECURSIVE RunPlan(_, _)
RunPlan(st, order) ==
    IF order = <<>> THEN st ELSE RunPlan(SpendUtxo(st, Head(order)), Tail(order))

\* No obligation is left: the loop may stop early.
AllConsumed(tb, ts) == \A a \in Assets : ~shouldConsumeAsset(tb, ts, a)

\* The UTXO sets a caller may hold: at most one UTXO per (txID, index).
UtxoIds == {<<"txA", 0>>, <<"txA", 1>>, <<"txB", 0>>}
UtxoAmounts == {1, MaxAmount}
UtxoSets ==
    LET cand == {Utxo(id[1], id[2], a, amt, 0, 1) :
                    id \in UtxoIds, a \in Assets, amt \in UtxoAmounts}
    IN  {S \in SUBSET cand :
            \A u, v \in S : (u.txID = v.txID /\ u.outputIdx = v.outputIdx) => u = v}

InitPlan ==
    \E tb \in {m \in MapsOver(Assets, 0 .. MaxOblig) : Len(m) = Cardinality(Assets)},
       ts \in {m \in MapsOver(Assets, 1 .. MaxOblig) : Len(m) <= 1},
       S \in UtxoSets :
        /\ Constructed(1, Dims(1, 0, 0, 0), tb, ts)
        /\ utxoSet = S
        /\ required = [toBurn |-> tb, toStake |-> ts]
        /\ EmptyKeyChain
        /\ NoRpc
        /\ pending = S
        /\ pc = "select"

SelectUtxo ==
    \E u \in pending :
        LET st == SpendUtxo(Planner(toBurn, toStake, complexity, inputs,
                                    changeOutputs, stakeOutputs, inputUTXOs), u) IN
        /\ pc = "select"
        /\ ~AllConsumed(toBurn, toStake)
        /\ pending' = pending \ {u}
        /\ toBurn' = st.toBurn
        /\ toStake' = st.toStake
        /\ complexity' = st.complexity
        /\ inputs' = st.inputs
        /\ changeOutputs' = st.changeOutputs
        /\ stakeOutputs' = st.stakeOutputs
        /\ inputUTXOs' = st.inputUTXOs
        /\ call' = Call("spendUtxo", [utxo |-> u])
        /\ ret' = 0
        /\ UNCHANGED <<params, rpc, keychain, utxoSet, required, pc>>

\* The loop is over (no UTXO left, or nothing left to consume): verify.
FinishSelection ==
    /\ pc = "select"
    /\ pending = {} \/ AllConsumed(toBurn, toStake)
    /\ pc' = "verified"
    /\ call' = Call("verifyAssetsConsumed", NoArg)
    /\ ret' = verifyAssetsConsumed(toBurn, toStake)
    /\ UNCHANGED <<params, rpc, keychain, utxoSet, required, pending, ledger, complexity, lists>>

\* A verified plan is finalized.
FinalizePlan ==
    /\ pc = "verified"
    /\ ret = NoError
    /\ pc' = "done"
    /\ call' = Call("getInputsOutputs", NoArg)
    /\ ret' = getInputsOutputs(inputs, changeOutputs, stakeOutputs, inputUTXOs)
    /\ UNCHANGED <<params, rpc, keychain, utxoSet, required, pending, ledger, complexity, lists>>

NextPlan ==
    \/ SelectUtxo
    \/ FinishSelection
    \/ FinalizePlan

SpecPlan == InitPlan /\ [][NextPlan]_vars

\* ---- the key chain under arbitrary calls
InitKeys ==
    /\ Constructed(1, Dims(1, 0, 0, 0), <<>>, <<>>)
    /\ NoLoop
    /\ EmptyKeyChain
    /\ NoRpc

ImportKey ==
    \E privk \in PrivateKeyArgs, generated \in PrivateKeys :
        LET r == importKey(keys, nextKeyPair, generated, privk) IN
        /\ nextKeyPair <= MaxKeyPairs
        /\ keys' = r.keys
        /\ nextKeyPair' = nextKeyPair + 1
        /\ call' = Call("importKey", [privk |-> privk])
        /\ ret' = r.ret
        /\ UNCHANGED <<params, rpc, loop, ledger, complexity, lists>>

MakeKey ==
    \E generated \in PrivateKeys :
        LET r == makeKey(keys, nextKeyPair, generated) IN
        /\ nextKeyPair <= MaxKeyPairs
        /\ keys' = r.keys
        /\ nextKeyPair' = nextKeyPair + 1
        /\ call' = Call("makeKey", NoArg)
        /\ ret' = r.ret
        /\ UNCHANGED <<params, rpc, loop, ledger, complexity, lists>>

NextKeys ==
    \/ ImportKey
    \/ MakeKey

SpecKeys == InitKeys /\ [][NextKeys]_vars

\* ---- the RPC API, one call at a time
InitRpc ==
    /\ Constructed(1, Dims(1, 0, 0, 0), <<>>, <<>>)
    /\ NoLoop
    /\ EmptyKeyChain
    /\ NoRpc

\* A method is called: it issues its request and returns a pending promise.
CallMethod ==
    \E method \in RpcMethods :
        /\ rpc.status # "pending"
        /\ rpc.calls < MaxRpcCalls
        /\ rpc' = [status |-> "pending", method |-> method, requests |-> 1,
                   calls |-> rpc.calls + 1, data |-> NoArg]
        /\ call' = Call(method, NoArg)
        /\ ret' = Pending
        /\ UNCHANGED <<keychain, params, loop, ledger, complexity, lists>>

\* The node's response arrives and the promise resolves.
NodeResponds ==
    /\ rpc.status = "pending"
    /\ \E data \in ResponseBodies(rpc.method) :
        /\ rpc' = [rpc EXCEPT !.status = "resolved", !.data = data]
        /\ ret' = Resolve(rpc.method, data)
        /\ UNCHANGED <<call, keychain, params, loop, ledger, complexity, lists>>

NextRpc ==
    \/ CallMethod
    \/ NodeResponds

SpecRpc == InitRpc /\ [][NextRpc]_vars

\* ------------------------------------------------------------------ claims
MinOf(x, y) == IF x <= y THEN x ELSE y

\* The planner's state apart from the record of the last call.
planner == <<gasPrice, weights, toBurn, toStake, complexity, inputs,
             changeOutputs, stakeOutputs, inputUTXOs>>

AllZero(m) == \A i \in 1 .. Len(m) : m[i].v = 0

\* C1: consumeAsset(assetID, amount) with amount >= 0 takes min(b, amount)
\* off remaining-to-burn b, then min(s, leftover) off remaining-to-stake s,
\* and returns what neither absorbed; toBurn = {X: 300} and
\* consumeAsset(X, 1000) returns 700.
C1_BurnBeforeStake ==
    [][(call'.op = "consumeAsset" /\ call'.arg.amount >= 0) =>
        LET a == call'.arg.assetId
            amount == call'.arg.amount
            b == MapGetOr0(toBurn, a)
            s == MapGetOr0(toStake, a)
            burned == MinOf(b, amount)
            staked == MinOf(s, amount - burned)
        IN  /\ MapGetOr0(toBurn', a) = b - burned
            /\ MapGetOr0(toStake', a) = s - staked
            /\ ret' = amount - burned - staked
            /\ consumeAsset(<<[k |-> "X", v |-> 300]>>, <<>>, "X", 1000).ret = 700
      ]_vars

\* A consumeAsset call that retired a burn and a stake obligation of its
\* asset and still returned change.
C1_Witness ==
    /\ call.op = "consumeAsset"
    /\ ret > 0
    /\ call.arg.amount > ret + 1
    /\ MapHas(toBurn, call.arg.assetId) /\ MapGetOr0(toBurn, call.arg.assetId) = 0
    /\ MapHas(toStake, call.arg.assetId) /\ MapGetOr0(toStake, call.arg.assetId) = 0

\* C2: from maps whose values are all >= 0, no sequence of consumeAsset and
\* consumeLockedAsset calls makes a remaining-to-burn or remaining-to-stake
\* value negative.
C2_NeverNegative ==
    /\ \A i \in 1 .. Len(toBurn) : toBurn[i].v >= 0
    /\ \A i \in 1 .. Len(toStake) : toStake[i].v >= 0

\* A consumeLockedAsset call whose amount exceeded the stake obligation.
C2_Witness ==
    /\ call.op = "consumeLockedAsset"
    /\ ret > 0
    /\ call.arg.amount > ret
    /\ MapGetOr0(toStake, call.arg.assetId) = 0

\* C5: verifyAssetsConsumed returns an error exactly when some
\* remaining-to-stake or remaining-to-burn value is nonzero, null exactly
\* when all are zero, and changes nothing of the planner.
C5_VerifyIffOutstanding ==
    [][call'.op = "verifyAssetsConsumed" =>
        /\ UNCHANGED planner
        /\ (ret' = NoError) <=> (AllZero(toStake) /\ AllZero(toBurn))
        /\ (ret' # NoError) => ret'.kind \in {"stake", "burn"}
      ]_vars

\* verifyAssetsConsumed has reported an unmet burn obligation.
C5_Witness ==
    /\ call.op = "verifyAssetsConsumed"
    /\ ret.kind = "burn"
    /\ ret.amount > 0

\* C6: verifyAssetsConsumed reports the first nonzero remaining-to-stake
\* entry (its asset and amount) whenever there is one, and a burn
\* obligation only when every remaining-to-stake value is zero.
C6_StakeReportedFirst ==
    [][call'.op = "verifyAssetsConsumed" =>
        /\ ~AllZero(toStake) =>
              \E i \in 1 .. Len(toStake) :
                  /\ toStake[i].v # 0
                  /\ \A j \in 1 .. i - 1 : toStake[j].v = 0
                  /\ ret' = [kind |-> "stake", assetId |-> toStake[i].k,
                             amount |-> toStake[i].v]
        /\ ret'.kind = "burn" => AllZero(toStake)
      ]_vars

\* Both kinds of obligation are outstanding, the first stake entry is met,
\* and the second one is reported.
C6_Witness ==
    /\ call.op = "verifyAssetsConsumed"
    /\ ~AllZero(toBurn)
    /\ Len(toStake) = 2
    /\ toStake[1].v = 0
    /\ ret = [kind |-> "stake", assetId |-> toStake[2].k, amount |-> toStake[2].v]

\* C7 as stated: shouldConsumeAsset(assetID) is true exactly when the
\* remaining-to-burn amount of the asset is nonzero.
C7_AsStated ==
    [][call'.op = "shouldConsumeAsset" =>
        (ret' <=> MapGetOr0(toBurn, call'.arg.assetId) # 0)]_vars

\* C7: shouldConsumeAsset(assetID) is true exactly when the
\* remaining-to-burn or the remaining-to-stake amount of the asset is
\* nonzero.
C7_BurnOrStake ==
    [][call'.op = "shouldConsumeAsset" =>
        (ret' <=> (MapGetOr0(toBurn, call'.arg.assetId) # 0
                   \/ MapGetOr0(toStake, call'.arg.assetId) # 0))]_vars

\* shouldConsumeAsset answered true for an asset with nothing left to burn.
C7_Witness ==
    /\ call.op = "shouldConsumeAsset"
    /\ ret = TRUE
    /\ MapGetOr0(toBurn, call.arg.assetId) = 0

\* ---- claims about the lists and the fee
Count(seq, x) == Cardinality({i \in 1 .. Len(seq) : seq[i] = x})

IsPermutation(a, b) ==
    /\ Len(a) = Len(b)
    /\ \A i \in 1 .. Len(b) : Count(a, b[i]) = Count(b, b[i])

IsSorted(seq, compare) ==
    \A i \in 1 .. Len(seq) - 1 : Compare(compare, seq[i], seq[i + 1]) <= 0

\* C8: getInputsOutputs returns the inputs, the change outputs and the
\* stake outputs each as a sorted permutation of the list it holds, and the
\* backing UTXOs as they are, which is the order of the addInput calls:
\* addInput appends its UTXO.
C8_SortedListsUtxosInAddOrder ==
    [][/\ call'.op = "getInputsOutputs" =>
            /\ IsPermutation(ret'.inputs, inputs)
            /\ IsSorted(ret'.inputs, "TransferableInput.compare")
            /\ IsPermutation(ret'.changeOutputs, changeOutputs)
            /\ IsSorted(ret'.changeOutputs, "compareTransferableOutputs")
            /\ IsPermutation(ret'.stakeOutputs, stakeOutputs)
            /\ IsSorted(ret'.stakeOutputs, "compareTransferableOutputs")
            /\ ret'.inputUTXOs = inputUTXOs
       /\ call'.op = "addInput" =>
            inputUTXOs' = Append(inputUTXOs, call'.arg.utxo)
      ]_vars

\* getInputsOutputs has reordered the inputs, and the first backing UTXO is
\* not the UTXO of the first sorted input.
C8_Witness ==
    /\ call.op = "getInputsOutputs"
    /\ Len(inputs) >= 2
    /\ ret.inputs # inputs
    /\ ret.inputUTXOs = inputUTXOs
    /\ InputOf(ret.inputUTXOs[1]) # ret.inputs[1]

Fee == calculateFee(complexity, weights, gasPrice)

\* C10: with non-negative weights and gas price, no addInput,
\* addChangeOutput, addStakedOutput or addOutputComplexity call decreases
\* the value calculateFee returns.
C10_FeeMonotone ==
    [][call'.op \in {"addInput", "addChangeOutput", "addStakedOutput",
                     "addOutputComplexity"} => Fee' >= Fee]_vars

\* A second input has been added and the fee is above the fee of the
\* empty plan.
C10_Witness ==
    /\ call.op = "addInput"
    /\ Len(inputs) >= 2
    /\ Fee > calculateFee(INTRINSIC_BASE_TX_COMPLEXITIES, weights, gasPrice)

\* ---- claims about a spend plan
\* The total amount of asset a in a list of inputs or outputs.
RECURSIVE SumAmount(_, _)
SumAmount(seq, a) ==
    IF seq = <<>> THEN 0
    ELSE (IF Head(seq).assetId = a THEN Head(seq).amount ELSE 0)
         + SumAmount(Tail(seq), a)

\* What the plan has to burn and to stake of asset a.
Needed(a) == MapGetOr0(required.toBurn, a) + MapGetOr0(required.toStake, a)

\* The inputs of the plan do not cover what is needed of asset a.
Short(a) == SumAmount(inputs, a) < Needed(a)

\* C3: in a plan that verifyAssetsConsumed accepted, the input amounts of
\* every asset equal its change output amounts plus its stake output
\* amounts plus the amount the plan had to burn of it.
C3_Conservation ==
    ((pc = "verified" /\ ret = NoError) \/ pc = "done") =>
        \A a \in Assets :
            SumAmount(inputs, a) =
                SumAmount(changeOutputs, a) + SumAmount(stakeOutputs, a)
                + MapGetOr0(required.toBurn, a)

\* An accepted plan with a burn, a stake output and change, from several
\* inputs.
C3_Witness ==
    /\ pc = "verified"
    /\ ret = NoError
    /\ Len(inputs) >= 2
    /\ stakeOutputs # <<>>
    /\ changeOutputs # <<>>
    /\ \E a \in Assets : MapGetOr0(required.toBurn, a) > 0

\* C4 as stated: every asset whose consumed total is below its required
\* burn plus stake is the asset of the error verifyAssetsConsumed returns.
C4_AsStated ==
    pc = "verified" =>
        \A a \in Assets :
            Short(a) => (ret.kind # "null" /\ ret.assetId = a /\ ret.amount > 0)

\* C4: when the consumed total of some asset is below its required burn
\* plus stake, verifyAssetsConsumed returns an error with a positive
\* shortfall that names an asset short in this way (the only one, when
\* there is only one); toBurn = {X: 2000} with 1000 consumed gives the
\* burn error for X with 1000.
C4_InsufficientFunds ==
    pc = "verified" =>
        /\ (\E a \in Assets : Short(a)) =>
              /\ ret.kind \in {"stake", "burn"}
              /\ ret.amount > 0
              /\ Short(ret.assetId)
        /\ LET used == consumeAsset(<<[k |-> "X", v |-> 2000]>>, <<>>, "X", 1000)
           IN  verifyAssetsConsumed(used.toBurn, used.toStake) =
                   [kind |-> "burn", assetId |-> "X", amount |-> 1000]

\* Every UTXO of an asset was consumed and its burn obligation is still not
\* met.
C4_Witness ==
    /\ pc = "verified"
    /\ ret.kind = "burn"
    /\ SumAmount(inputs, ret.assetId) > 0
    /\ Short(ret.assetId)

\* The UTXOs of a set in the order of their (txID, output index).
CanonicalOrder(S) ==
    CHOOSE seq \in [1 .. Cardinality(S) -> S] :
        /\ \A i, j \in 1 .. Cardinality(S) : i # j => seq[i] # seq[j]
        /\ \A i \in 1 .. Cardinality(S) - 1 :
              LexCompare(<<IdRank(seq[i].txID), seq[i].outputIdx>>,
                         <<IdRank(seq[i + 1].txID), seq[i + 1].outputIdx>>) < 0

\* The plan the loop builds from the same obligations and UTXO set when it
\* iterates the UTXOs in canonical order.
ReferencePlan ==
    LET st == RunPlan(Planner(required.toBurn, required.toStake,
                              INTRINSIC_BASE_TX_COMPLEXITIES, <<>>, <<>>, <<>>, <<>>),
                      CanonicalOrder(utxoSet))
    IN  getInputsOutputs(st.inputs, st.changeOutputs, st.stakeOutputs, st.inputUTXOs)

\* C9 as stated: a plan built in any iteration order returns the sorted
\* lists of the plan built from the same UTXO set and parameters in
\* another order.
C9_AsStated ==
    pc = "done" =>
        /\ ret.inputs = ReferencePlan.inputs
        /\ ret.changeOutputs = ReferencePlan.changeOutputs
        /\ ret.stakeOutputs = ReferencePlan.stakeOutputs

Perms(n) == {f \in [1 .. n -> 1 .. n] : \A i, j \in 1 .. n : i # j => f[i] # f[j]}

Permute(seq, f) == [i \in 1 .. Len(seq) |-> seq[f[i]]]

\* C9: a plan to which the same inputs, change outputs and stake outputs
\* were added in any other order returns the same sorted lists.
C9_SameItemsSameLists ==
    pc = "done" =>
        /\ \A f \in Perms(Len(inputs)) :
              getInputsOutputs(Permute(inputs, f), changeOutputs, stakeOutputs,
                               Permute(inputUTXOs, f)).inputs = ret.inputs
        /\ \A f \in Perms(Len(changeOutputs)) :
              getInputsOutputs(inputs, Permute(changeOutputs, f), stakeOutputs,
                               inputUTXOs).changeOutputs = ret.changeOutputs
        /\ \A f \in Perms(Len(stakeOutputs)) :
              getInputsOutputs(inputs, changeOutputs, Permute(stakeOutputs, f),
                               inputUTXOs).stakeOutputs = ret.stakeOutputs

\* A finalized plan whose inputs were not added in canonical order.
C9_Witness ==
    /\ pc = "done"
    /\ Len(inputs) >= 2
    /\ ret.inputs # inputs
    /\ Len(changeOutputs) + Len(stakeOutputs) >= 2

\* ---- further claims about the lists and the fee
\* Component-wise sum of two Dimensions, dimension by dimension.
PlusDims(a, b) ==
    Dims(a.Bandwidth + b.Bandwidth, a.DBRead + b.DBRead,
         a.DBWrite + b.DBWrite, a.Compute + b.Compute)

\* C11: calculateFee returns the sum over Bandwidth, DBRead, DBWrite and
\* Compute of runningComplexity[d] * weights[d], times gasPrice, and changes
\* nothing of the planner; the running complexity grows by the marginal
\* complexity of each input added by addInput and of each output passed to
\* addOutputComplexity.
C11_FeeIsWeightedSumTimesGasPrice ==
    [][/\ call'.op = "calculateFee" =>
            /\ UNCHANGED planner
            /\ ret' = (complexity.Bandwidth * weights.Bandwidth
                       + complexity.DBRead * weights.DBRead
                       + complexity.DBWrite * weights.DBWrite
                       + complexity.Compute * weights.Compute) * gasPrice
       /\ call'.op = "addInput" =>
            complexity' = PlusDims(complexity, InputComplexity(call'.arg.input))
       /\ call'.op = "addOutputComplexity" =>
            complexity' = PlusDims(complexity, OutputComplexity(call'.arg.output))
      ]_vars

\* calculateFee has priced a plan with an input and an added output
\* complexity at a gas price other than 1.
C11_Witness ==
    /\ call.op = "calculateFee"
    /\ gasPrice > 1
    /\ inputs # <<>>
    /\ complexity.DBWrite > Len(inputs)
    /\ ret > 0

\* C12: addChangeOutput and addStakedOutput append the output to the end of
\* the change (resp. stake) output list and return its marginal Dimensions;
\* the running complexity, the inputs, the backing UTXOs, the other output
\* list and both obligation maps stay as they are, and so does the fee.
C12_AddOutputAppendsAndReturnsComplexity ==
    [][/\ call'.op = "addChangeOutput" =>
            /\ changeOutputs' = Append(changeOutputs, call'.arg.output)
            /\ changeOutputs'[Len(changeOutputs')] = call'.arg.output
            /\ ret' = OutputComplexity(call'.arg.output)
            /\ UNCHANGED <<complexity, inputs, inputUTXOs, stakeOutputs,
                           toBurn, toStake, gasPrice, weights>>
            /\ Fee' = Fee
       /\ call'.op = "addStakedOutput" =>
            /\ stakeOutputs' = Append(stakeOutputs, call'.arg.output)
            /\ stakeOutputs'[Len(stakeOutputs')] = call'.arg.output
            /\ ret' = OutputComplexity(call'.arg.output)
            /\ UNCHANGED <<complexity, inputs, inputUTXOs, changeOutputs,
                           toBurn, toStake, gasPrice, weights>>
            /\ Fee' = Fee
      ]_vars

\* A second, different change output has been added behind the first and
\* its marginal Dimensions returned.
C12_Witness ==
    /\ call.op = "addChangeOutput"
    /\ Len(changeOutputs) >= 2
    /\ changeOutputs[Len(changeOutputs)] = call.arg.output
    /\ changeOutputs[1] # call.arg.output
    /\ ret = OutputComplexity(call.arg.output)
    /\ ret.Bandwidth > 0

\* C16: the backing-UTXO list is as long as the input list and its i-th
\* element is the UTXO that was passed with the i-th input; a step that
\* changes either list is an addInput step, which appends the pair, adds the
\* input's marginal Dimensions to the running complexity and leaves the
\* output lists and both obligation maps as they are.
C16_InputsAndUtxosInStep ==
    /\ [](/\ Len(inputUTXOs) = Len(inputs)
          /\ \A i \in 1 .. Len(inputs) : InputOf(inputUTXOs[i]) = inputs[i])
    /\ [][/\ (inputs' # inputs \/ inputUTXOs' # inputUTXOs) =>
                call'.op = "addInput"
          /\ call'.op = "addInput" =>
                /\ inputs' = Append(inputs, call'.arg.input)
                /\ inputUTXOs' = Append(inputUTXOs, call'.arg.utxo)
                /\ complexity' =
                       PlusDims(complexity, InputComplexity(call'.arg.input))
                /\ UNCHANGED <<changeOutputs, stakeOutputs, toBurn, toStake>>
         ]_vars

\* Two different inputs have been added, with outputs in the plan, and each
\* stands at the index of its own UTXO.
C16_Witness ==
    /\ call.op = "addInput"
    /\ Len(inputs) >= 2
    /\ inputs[1] # inputs[2]
    /\ inputUTXOs[Len(inputs)] = call.arg.utxo
    /\ changeOutputs # <<>>

\* ---- further claims about the ledger
\* No asset ID is still to be consumed.
NothingToConsume == \A a \in Assets : ~shouldConsumeAsset(toBurn, toStake, a)

\* C17: in every reachable state verifyAssetsConsumed returns no error
\* exactly when shouldConsumeAsset is false for every asset ID, and an error
\* it returns names an asset for which shouldConsumeAsset is true; a
\* verifyAssetsConsumed call returns just that.
C17_VerifyIffNothingToConsume ==
    LET e == verifyAssetsConsumed(toBurn, toStake) IN
    /\ (e = NoError) <=> NothingToConsume
    /\ (e # NoError) =>
           /\ e.assetId \in Assets
           /\ shouldConsumeAsset(toBurn, toStake, e.assetId)
    /\ (call.op = "verifyAssetsConsumed") => ret = e

\* verifyAssetsConsumed has failed for a stake obligation while nothing is
\* left to burn: only the stake half of shouldConsumeAsset is true.
C17_Witness ==
    /\ call.op = "verifyAssetsConsumed"
    /\ ret # NoError
    /\ ret.kind = "stake"
    /\ AllZero(toBurn)
    /\ toBurn # <<>>
    /\ shouldConsumeAsset(toBurn, toStake, ret.assetId)

\* ---- claims about the fee constants
\* The intrinsic complexities of all transaction types of constants.ts.
IntrinsicTxComplexities ==
    {INTRINSIC_BASE_TX_COMPLEXITIES,
     INTRINSIC_CREATE_CHAIN_TX_COMPLEXITIES,
     INTRINSIC_CREATE_SUBNET_TX_COMPLEXITIES,
     INTRINSIC_ADD_PERMISSIONLESS_VALIDATOR_TX_COMPLEXITIES,
     INTRINSIC_ADD_PERMISSIONLESS_DELEGATOR_TX_COMPLEXITIES,
     INTRINSIC_ADD_SUBNET_VALIDATOR_TX_COMPLEXITIES,
     INTRINSIC_EXPORT_TX_COMPLEXITIES,
     INTRINSIC_IMPORT_TX_COMPLEXITIES,
     INTRINSIC_REMOVE_SUBNET_VALIDATOR_TX_COMPLEXITIES,
     INTRINSIC_TRANSFER_SUBNET_OWNERSHIP_TX_COMPLEXITIES}

\* C14: the base transaction's intrinsic bandwidth is 2+4+4+32+4+4+4+4 = 58
\* bytes, an output's is 32+4 = 36, an input's is 32+4+32+4+4 = 76, and every
\* transaction type's intrinsic bandwidth is at least the base
\* transaction's; a new planner starts from the base, and each added input
\* brings at least the input's intrinsic bandwidth.
C14_IntrinsicBandwidths ==
    /\ INTRINSIC_BASE_TX_COMPLEXITIES.Bandwidth = 2 + 4 + 4 + 32 + 4 + 4 + 4 + 4
    /\ INTRINSIC_BASE_TX_COMPLEXITIES.Bandwidth = 58
    /\ INTRINSIC_OUTPUT_BANDWIDTH = 32 + 4
    /\ INTRINSIC_OUTPUT_BANDWIDTH = 36
    /\ INTRINSIC_INPUT_BANDWIDTH = 32 + 4 + 32 + 4 + 4
    /\ INTRINSIC_INPUT_BANDWIDTH = 76
    /\ \A t \in IntrinsicTxComplexities :
           t.Bandwidth >= INTRINSIC_BASE_TX_COMPLEXITIES.Bandwidth
    /\ call.op = "new" => complexity.Bandwidth = 58
    /\ complexity.Bandwidth >= 58 + 76 * Len(inputs)

\* A planner that started from the base transaction's 58 bytes holds an
\* input and has priced an output.
C14_Witness ==
    /\ Len(inputs) = 1
    /\ complexity.DBWrite > Len(inputs)
    /\ complexity.Bandwidth >= 58 + 76 + 36
    /\ \E t \in IntrinsicTxComplexities :
           t.Bandwidth > INTRINSIC_BASE_TX_COMPLEXITIES.Bandwidth

\* ---- claims about the key chain
\* The private key a caller's argument stands for.
PrivateKeyOfArg(privk) ==
    CHOOSE k \in PrivateKeys : privk \in {BufferKey(k), StringKey(k)}

\* The address of a private key.
AddressOfKey(k) == addressFromPublicKey(PublicKeyOf(k))

\* C13: importKey returns the address of the private key, whichever form
\* the key is passed in and however often; afterwards exactly the pair
\* stored for that address holds the key, a pair that was stored before the
\* call is the same object after it, and every other held key is as it was.
C13_ImportKeyIdempotent ==
    [][call'.op = "importKey" =>
         LET k == PrivateKeyOfArg(call'.arg.privk)
             a == toHex(AddressOfKey(k))
         IN  /\ ret' = AddressOfKey(k)
             /\ DOMAIN keys' = DOMAIN keys \cup {a}
             /\ keys'[a].privk = k
             /\ \A b \in DOMAIN keys' : toHex(getAddress(keys'[b])) = a <=> b = a
             /\ \A b \in DOMAIN keys : keys'[b] = keys[b]
             /\ a \in DOMAIN keys => keys' = keys
      ]_vars

\* A key has been imported again, as a string, while another key
\* is held: the stored pair is older than the pair this call constructed.
C13_Witness ==
    /\ call.op = "importKey"
    /\ call.arg.privk.typeof = "string"
    /\ toHex(ret) \in DOMAIN keys
    /\ keys[toHex(ret)].id < nextKeyPair - 1
    /\ keys[toHex(ret)].privk = PrivateKeyOfArg(call.arg.privk)
    /\ Cardinality(DOMAIN keys) >= 2

\* ---- claims about the RPC API
IsErrorObject(r) == DOMAIN r \in {{"code", "message"}, {"code", "message", "data"}}

====
